---- MODULE Spec2Model ----
(***************************************************************************)
(* Model of the resilience utilities of libraries_io_mcp (utils.py).       *)
(*                                                                         *)
(* Part 1: RateLimiter.  Time is counted in whole seconds and kept         *)
(* relative to the present: instead of the pair (time.time(), last_refill) *)
(* the model keeps since_refill = time.time() - last_refill, which is all  *)
(* the code ever reads.  The value is capped at window_seconds + 1: from   *)
(* there on the code takes the full-window branch and its sleep time is    *)
(* no longer positive, so larger values behave alike.                      *)
(*                                                                         *)
(* The code runs on one asyncio event loop: a coroutine runs without       *)
(* interruption between two awaits.  acquire awaits in two places only,    *)
(* the lock (line 50) and asyncio.sleep (line 67), so an action is the     *)
(* code between two such points.                                           *)
(*                                                                         *)
(* Part 2: MemoryCache.  Its clock, now, is absolute and counted in whole  *)
(* seconds.  No method of the cache suspends while it holds the lock (the  *)
(* lock is always free when a method starts, and _evict_oldest contains no *)
(* await), so each method is one action.  The two parts do not call each   *)
(* other: each has its own specifications, in which the other part's       *)
(* variables stay as constructed.                                          *)
(*                                                                         *)
(* Part 3: RetryHandler.  retry awaits the operation and asyncio.sleep;    *)
(* an action is the code between two such points.  Delays are counted in   *)
(* thousandths of a second, so that the jitter, a whole number of          *)
(* thousandths of the delay, stays an integer.                             *)
(*                                                                         *)
(* Part 4: HTTPClientHelper.parse_rate_limit and the request pipeline of   *)
(* LibrariesIOClient (client.py), which calls the three parts above.  A    *)
(* header is missing, is text that is no number, is a decimal numeral      *)
(* such as "1.5", or is an integer numeral.                                *)
(*                                                                         *)
(* Part 5: MemoryCache._generate_key.  The JSON text json.dumps returns    *)
(* is kept as its content, the endpoint and the parameters in sorted       *)
(* order; a parameter value is an int or a str, which JSON writes          *)
(* differently.  The md5 digest is kept as the text it was taken of: the   *)
(* texts of the model are few and short, and no two of them are taken to   *)
(* collide.                                                                *)
(***************************************************************************)
EXTENDS Integers, Sequences, FiniteSets, TLC

\* Bounds of the model.
MaxLimit == 2
MaxWindow == 3
NumTasks == 2
MaxNow == 2
MaxTtl == 1
MaxRetries == 2
MaxDelay == 3
MaxRequests == 2
MaxParams == 2

Tasks == 1..NumTasks

VARIABLES
    limit,           \* RateLimiter.limit
    window_seconds,  \* RateLimiter.window_seconds
    tokens,          \* RateLimiter.tokens
    since_refill,    \* time.time() - RateLimiter.last_refill, capped
    locked,          \* RateLimiter._lock is held
    waiters,         \* tasks suspended on RateLimiter._lock, in arrival order
    pc,              \* per task: "idle", "queued" (on the lock), "sleeping" (line 67),
                     \* "cancelled" (its acquire ended with CancelledError)
    req,             \* per task: the argument `tokens` of its acquire call (0: none)
    time_passed,     \* per task: the local time_passed of its acquire call
    sleep_left,      \* per task: seconds until its asyncio.sleep is due
    info,            \* the RateLimitInfo get_info has just returned (NoInfo: none)
    grants,          \* grants[i]: single-token acquires that returned i-1 seconds ago
    idle_for,        \* seconds since any acquire call last ran any code, capped
    burst,           \* single-token acquires returned at this instant, without
                     \* suspending, counted from a full bucket
    ideal,           \* what a bucket refilled continuously would hold, after
                     \* the same consumptions, in 1/window_seconds of a token
    arrived,         \* the tasks whose acquire call is in progress, in the
                     \* order in which they called
    max_size,        \* MemoryCache.max_size
    default_ttl,     \* MemoryCache.default_ttl
    cache,           \* MemoryCache._cache: key -> [data, expires_at]
    access_times,    \* MemoryCache._access_times: [key, at] in dict insertion order
    now,             \* time.time(), as the cache reads it
    ret,             \* the cache method that has just returned, its key, what
                     \* it returned (0: None) and the keys it removed
    written,         \* per stored key: the set(key, ...) that stored its entry
    last_access,     \* per stored key: the time of its latest set or get hit
    max_retries,     \* RetryHandler.max_retries
    base_delay,      \* RetryHandler.base_delay, in seconds
    max_delay,       \* RetryHandler.max_delay, in seconds
    rstate,          \* where retry is: "idle", "attempting" (awaiting func),
                     \* "waiting" (awaiting asyncio.sleep), "succeeded",
                     \* "exhausted", "cancelled"
    attempt,         \* the loop variable of retry
    last_exception,  \* the local last_exception of retry (NoExc: None)
    delay,           \* the argument of the latest asyncio.sleep, in 1/1000 s
    result,          \* the value retry returned (0: none)
    raised,          \* the exception retry raised (NoExc: none)
    calls,           \* invocations of func so far
    sleeps,          \* asyncio.sleep calls so far
    thrown,          \* the exception func raised last (NoExc: none)
    returned,        \* the value func returned (0: none)
    headers,         \* the argument of parse_rate_limit
    parsed,          \* what parse_rate_limit returned (Absent: None)
    cpc,             \* where _make_request is: "idle", "acquire" (awaiting
                     \* rate_limiter.acquire), "transport" (awaiting
                     \* session.request), "backoff" (awaiting the sleep of
                     \* retry), "done"
    ckey,            \* the cache key of the request ("": none)
    response,        \* the response session.request returned last
    rate_limit_info, \* LibrariesIOClient._rate_limit_info (Absent: None)
    outcome,         \* what _make_request returned or raised
    transport_calls, \* session.request calls of the request
    permits,         \* rate_limiter.acquire calls returned for the request
    requests,        \* _make_request calls so far
    spent,           \* a response of the request in progress carried
                     \* x-ratelimit-remaining: 0
    reads,           \* cache.get calls of _make_request so far
    writes,          \* cache.set calls of _make_request so far
    key_args,        \* two argument lists of _generate_key
    key_out          \* the keys _generate_key returned for them (<<>>: none)

limiterVars == <<limit, window_seconds, tokens, since_refill, locked, waiters, pc,
                 req, time_passed, sleep_left, info, grants, idle_for, burst,
                 ideal, arrived>>

cacheVars == <<max_size, default_ttl, cache, access_times, now, ret, written,
               last_access>>

retryVars == <<max_retries, base_delay, max_delay, rstate, attempt,
               last_exception, delay, result, raised, calls, sleeps, thrown,
               returned>>

clientVars == <<headers, parsed, cpc, ckey, response, rate_limit_info, outcome,
                transport_calls, permits, requests, spent, reads, writes,
                key_args, key_out>>

\* What the methods of one component leave alone.
otherThanLimiter == <<cacheVars, retryVars, clientVars>>
otherThanCache == <<limiterVars, retryVars, clientVars>>
otherThanRetry == <<limiterVars, cacheVars, clientVars>>

vars == <<limit, window_seconds, tokens, since_refill, locked, waiters, pc, req,
          time_passed, sleep_left, info, grants, idle_for, burst, ideal, arrived,
          max_size, default_ttl, cache, access_times, now, ret, written,
          last_access,
          max_retries, base_delay, max_delay, rstate, attempt, last_exception,
          delay, result, raised, calls, sleeps, thrown, returned,
          headers, parsed, cpc, ckey, response, rate_limit_info, outcome,
          transport_calls, permits, requests, spent, reads, writes, key_args,
          key_out>>

Min(a, b) == IF a < b THEN a ELSE b
Max(a, b) == IF a > b THEN a ELSE b

RECURSIVE Sum(_)
Sum(s) == IF s = <<>> THEN 0 ELSE Head(s) + Sum(Tail(s))

NoInfo == [limit |-> 0, remaining |-> 0, used |-> 0]

Zeros(n) == [i \in 1..n |-> 0]

----------------------------------------------------------------------------
\* RateLimiter: the pure computations.

\* int((time_passed / self.window_seconds) * self.limit)
TokensToAdd(tp) == (tp * limit) \div window_seconds

\* The value of self.tokens after the refill of lines 55-62 (and 72-78).
Refilled(tp) ==
    IF tp >= window_seconds
    THEN limit
    ELSE Min(limit, tokens + TokensToAdd(tp))

\* A wait of what is left of the window, without the extra second.
SleepTime_NoExtra(tp) == Max(0, window_seconds - tp)

\* window_seconds - time_passed + 1; asyncio.sleep of a delay <= 0 is due at once.
SleepTime(tp) == Max(0, window_seconds - tp + 1)

\* An acquire that does not wait for the lock.
LockFree_NoLock == TRUE

\* `async with self._lock` enters without suspending iff the lock is free and
\* no task waits for it.
LockFree == ~locked /\ waiters = <<>>

\* A snapshot that reports the stored tokens, with no refill computed.
InfoRemaining_Stored(tp) == tokens

\* remaining, as get_info computes it.
InfoRemaining(tp) ==
    IF tp >= window_seconds
    THEN limit
    ELSE Min(limit, tokens + TokensToAdd(tp))

\* used, as get_info computes it.
InfoUsed(tp) ==
    IF tp >= window_seconds
    THEN 0
    ELSE limit - InfoRemaining(tp)

\* A bucket of capacity limit refilled continuously at limit / window_seconds
\* tokens a second, one second later: limit more units of 1/window_seconds
\* of a token, up to the capacity.
IdealRefilled == Min(limit * window_seconds, ideal + limit)

\* The same bucket after the consumption of n tokens.
IdealAfter(n) == ideal - n * window_seconds

\* The calls in progress without the one of task t, which has ended.
Left(calls_in_order, t) == SelectSeq(calls_in_order, LAMBDA u : u # t)

\* A wait loop that lets a request through one token short.
MustWait_OffByOne(have, n) == have < n - 1

\* The while condition of line 65.
MustWait(have, n) == have < n

\* A consumption that takes one token whatever the request.
Consume_One(have, n) == have - 1

\* self.tokens -= tokens
Consume(have, n) == have - n

----------------------------------------------------------------------------
\* MemoryCache: the data and the pure computations.

\* Cache keys, as _generate_key returns them.
Keys == {"A", "B", "C"}

\* The capacities: with three keys, a set of a new key into a full cache of
\* capacity 2 has two stored entries to choose its victim from.
Sizes == {1, 2}

\* The data stored; 0 stands for Python's None, which get returns for a miss.
Values == {1, 2}

\* ttl=None, the default of set's parameter ttl.
None == -1

\* The ttl arguments callers pass.
Ttls == {None} \cup (0..MaxTtl)

\* An empty dict.
EmptyMap == [k \in {} |-> 0]

\* No set of the key is on record.
NoWrite == [val |-> 0, at |-> 0, ttl |-> None]

\* No cache method has just returned.
NoRet == [op |-> "none", key |-> "", val |-> 0, removed |-> {}]

\* An is_expired that also counts the instant of expiry.
IsExpired_AtExpiry(entry) == now >= entry.expires_at

\* CacheEntry.is_expired: time.time() > self.expires_at
IsExpired(entry) == now > entry.expires_at

\* A ttl taken as given, None alone giving the default.
EffectiveTtl_NoneOnly(ttl) == IF ttl = None THEN default_ttl ELSE ttl

\* (ttl or self.default_ttl): None and 0 are both falsy.
EffectiveTtl(ttl) == IF ttl = None \/ ttl = 0 THEN default_ttl ELSE ttl

\* The keys of a dict kept as a sequence of [key, at] items.
ItemKeys(items) == {items[i].key : i \in DOMAIN items}

\* The value a dict kept as a sequence of [key, at] items holds for key k.
ItemAt(items, k) ==
    LET i == CHOOSE i \in DOMAIN items : items[i].key = k
    IN  items[i].at

\* d[k] = v on a dict kept as a sequence of items: a stored key keeps its
\* place, a new key goes last.
SetItem(items, k, t) ==
    IF k \in ItemKeys(items)
    THEN [i \in DOMAIN items |->
            IF items[i].key = k THEN [key |-> k, at |-> t] ELSE items[i]]
    ELSE Append(items, [key |-> k, at |-> t])

\* A deletion that leaves the access-time item behind.
DelItem_Keep(items, k) == items

\* del d[k] on a dict kept as a sequence of items.
DelItem(items, k) == SelectSeq(items, LAMBDA e : e.key # k)

\* An eviction that takes an expired entry when there is one, the last of
\* them in dict order.
OldestKey_ExpiredFirst(items) ==
    LET expired == {i \in DOMAIN items :
                       /\ items[i].key \in DOMAIN cache
                       /\ now > cache[items[i].key].expires_at}
    IN  IF expired # {}
        THEN items[CHOOSE i \in expired : \A j \in expired : j <= i].key
        ELSE items[1].key

\* An eviction in insertion order: the first item of the dict.
OldestKey_First(items) == items[1].key

\* min(self._access_times.items(), key=lambda x: x[1])[0]: the first item, in
\* dict order, among those with the least access time.
OldestKey(items) ==
    LET i == CHOOSE i \in DOMAIN items :
                 \A j \in DOMAIN items :
                     \/ items[j].at > items[i].at
                     \/ items[j].at = items[i].at /\ j >= i
    IN  items[i].key

\* An eviction that starts one entry too late.
Full_Over(n) == n > max_size

\* len(self._cache) >= self.max_size
Full(n) == n >= max_size

\* A deletion that leaves the entry in place.
Without_Keep(c, k) == c

\* An assignment that keeps the entry a stored key already has.
With_KeepOld(c, k, e) ==
    [j \in (DOMAIN c) \cup {k} |-> IF j \in DOMAIN c THEN c[j] ELSE e]

\* del self._cache[k]
Without(c, k) == [j \in (DOMAIN c) \ {k} |-> c[j]]

\* self._cache[k] = e
With(c, k, e) == [j \in (DOMAIN c) \cup {k} |-> IF j = k THEN e ELSE c[j]]

\* The limiter as constructed, when only the cache is exercised.
LimiterFresh ==
    /\ limit = 1
    /\ window_seconds = 1
    /\ tokens = 1
    /\ since_refill = 0
    /\ locked = FALSE
    /\ waiters = <<>>
    /\ pc = [t \in Tasks |-> "idle"]
    /\ req = [t \in Tasks |-> 0]
    /\ time_passed = [t \in Tasks |-> 0]
    /\ sleep_left = [t \in Tasks |-> 0]
    /\ info = NoInfo
    /\ grants = Zeros(1)
    /\ idle_for = 0
    /\ burst = 0
    /\ ideal = 1
    /\ arrived = <<>>

\* MemoryCache.__init__, but for max_size and default_ttl.
CacheFresh ==
    /\ cache = EmptyMap
    /\ access_times = <<>>
    /\ now = 0
    /\ ret = NoRet
    /\ written = [k \in Keys |-> NoWrite]
    /\ last_access = [k \in Keys |-> 0]

\* The cache of a client that is not exercised.
CacheUnused ==
    /\ max_size = 1
    /\ default_ttl = 1
    /\ CacheFresh

----------------------------------------------------------------------------
\* MemoryCache._generate_key: the data and the pure computations.

\* The endpoints of the model.
Paths == {"platforms", "search"}

\* The parameter names of the model, in the order in which Python compares
\* str, which is the order sort_keys=True writes them in.
ParamNames == <<"page", "q", "sort">>

\* Parameter values: the int 1 and the str "1".
ParamValues == {[type |-> "int", n |-> 1], [type |-> "str", n |-> 1]}

\* The elements of a sequence.
Range(seq) == {seq[i] : i \in DOMAIN seq}

\* A dict of parameters, as the sequence of its items in insertion order.
ParamLists ==
    LET items == [name : Range(ParamNames), value : ParamValues]
    IN  {ps \in UNION {[1..n -> items] : n \in 0..MaxParams} :
            \A i, j \in DOMAIN ps : ps[i].name = ps[j].name => i = j}

\* The arguments of _generate_key: params is a dict or (given FALSE) None.
KeyArgs ==
    {a \in [endpoint : Paths, given : BOOLEAN, params : ParamLists] :
        ~a.given => a.params = <<>>}

\* The dict of parameters as Python compares dicts: without insertion order.
ParamDict(a) == Range(a.params)

\* A json.dumps that writes the items in insertion order.
SortKeys_InsertionOrder(ps) == ps

\* The items as json.dumps(..., sort_keys=True) writes them.
SortKeys(ps) ==
    LET names == {ps[i].name : i \in DOMAIN ps}
        order == SelectSeq(ParamNames, LAMBDA nm : nm \in names)
    IN  [i \in DOMAIN order |-> CHOOSE it \in Range(ps) : it.name = order[i]]

\* key_string: json.dumps of {'endpoint': endpoint, 'params': params or {}}.
KeyString(a) ==
    [endpoint |-> a.endpoint,
     params |-> SortKeys(IF a.given THEN a.params ELSE <<>>)]

\* hashlib.md5(key_string.encode()).hexdigest()
Md5(text) == [md5 |-> text]

\* MemoryCache._generate_key
GenerateKey(a) == Md5(KeyString(a))

----------------------------------------------------------------------------
\* RetryHandler: the data and the pure computations.

\* Values an operation returns; 0 stands for no value.
Results == {1, 2}

\* Exception classes an operation raises, all subclasses of Exception.
ErrTypes == {"TimeoutError", "ValueError"}

\* hash(time.time()) % 100 lies in 0..99; the least, a middle and the
\* greatest value.
Jitters == {0, 50, 99}

NoExc == [type |-> "none", attempt |-> None]

RECURSIVE Pow2(_)
Pow2(k) == IF k = 0 THEN 1 ELSE 2 * Pow2(k - 1)

\* A backoff that does not grow.
Backoff_Fixed(k) == Min(max_delay, base_delay)

\* min(self.max_delay, self.base_delay * (2 ** attempt)), in seconds
Backoff(k) == Min(max_delay, base_delay * Pow2(k))

\* delay * 0.1 * (hash(time.time()) % 100) / 100, in 1/1000 s for d in seconds
Jitter(d, j) == d * j

\* The delay retry sleeps after the failure of attempt k, in 1/1000 s.
SleepDelay(k, j) == 1000 * Backoff(k) + Jitter(Backoff(k), j)

\* An exhaustion test that allows one attempt more.
LastAttempt_OneMore(a) == a = max_retries + 1

\* attempt == self.max_retries
LastAttempt(a) == a = max_retries

\* A retry that returns None whatever the operation returned.
RetryResult_None(v) == 0

\* return await func(*args, **kwargs)
RetryResult(v) == v

\* A handler that has not been used.
RetryFresh ==
    /\ rstate = "idle"
    /\ attempt = 0
    /\ last_exception = NoExc
    /\ delay = 0
    /\ result = 0
    /\ raised = NoExc
    /\ calls = 0
    /\ sleeps = 0
    /\ thrown = NoExc
    /\ returned = 0

\* default_retry_handler, not exercised.
RetryUnused ==
    /\ max_retries = 0
    /\ base_delay = 1
    /\ max_delay = 1
    /\ RetryFresh

----------------------------------------------------------------------------
\* HTTPClientHelper and LibrariesIOClient: the data and the pure computations.

\* The value of one header: absent, or the kind of its text.  n is the
\* integer part of a numeral.
Missing == [kind |-> "missing", n |-> 0]
Text == [kind |-> "text", n |-> 0]
Decimal(n) == [kind |-> "decimal", n |-> n]
Whole(n) == [kind |-> "int", n |-> n]
HeaderVals == {Missing, Text, Decimal(1), Whole(0), Whole(1), Whole(2)}

\* x-ratelimit-limit, x-ratelimit-remaining, x-ratelimit-reset
HeaderSets == [limit : HeaderVals, remaining : HeaderVals, reset : HeaderVals]

\* None, where a RateLimitInfo is expected.
Absent == [present |-> FALSE, limit |-> 0, remaining |-> 0, reset |-> 0,
           used |-> 0]

\* int(headers.get(name, 0)) raises ValueError: the default 0 converts, text
\* and decimal numerals do not.
IntFails(h) == h.kind \in {"text", "decimal"}

\* int(headers.get(name, 0))
IntOf(h) == IF h.kind = "int" THEN h.n ELSE 0

\* float(headers.get(name, 0)) raises ValueError
FloatFails(h) == h.kind = "text"

\* float(headers.get(name, 0)), in 1/1000; the decimal numerals are n.5
FloatOf(h) ==
    IF h.kind = "int" THEN 1000 * h.n
    ELSE IF h.kind = "decimal" THEN 1000 * h.n + 500
    ELSE 0

\* HTTPClientHelper.parse_rate_limit
ParseRateLimit(hs) ==
    IF IntFails(hs.limit) \/ IntFails(hs.remaining) \/ FloatFails(hs.reset)
    THEN Absent
    ELSE [present |-> TRUE,
          limit |-> IntOf(hs.limit),
          remaining |-> IntOf(hs.remaining),
          reset |-> FloatOf(hs.reset),
          used |-> IntOf(hs.limit) - IntOf(hs.remaining)]

NoHeaders == [limit |-> Missing, remaining |-> Missing, reset |-> Missing]

\* Headers of the responses of the model: none, one that is no number, a
\* quota that is used up and one that is not.
BadHeaders == [limit |-> Text, remaining |-> Whole(1), reset |-> Whole(1)]
SpentHeaders == [limit |-> Whole(2), remaining |-> Whole(0), reset |-> Whole(1)]
OpenHeaders == [limit |-> Whole(2), remaining |-> Whole(1), reset |-> Whole(1)]
ResponseHeaders == {NoHeaders, BadHeaders, SpentHeaders, OpenHeaders}

\* What session.request does: it returns a response with a status, headers
\* and a body that is JSON or not, or (status 0) it raises a transport error.
Statuses == {200, 404, 500}
TransportError == [status |-> 0, headers |-> NoHeaders, json |-> TRUE]
Responses == [status : Statuses, headers : ResponseHeaders, json : BOOLEAN]
                 \cup {TransportError}

\* The response carries x-ratelimit-remaining: 0.
ReportsSpent(r) == r.status # 0 /\ r.headers.remaining = Whole(0)

\* The endpoints a caller asks for: the cache keys "A" and "B".
Endpoints == {"A", "B"}

\* The data a response body parses to.
BodyData == 1

\* The exception classes of client.py, all subclasses of LibrariesIOClientError.
ClientErrors == {"LibrariesIOClientError", "RateLimitError",
                 "AuthenticationError", "NotFoundError", "ServerError"}

\* _handle_error: the exception class for a status of 400 or more.
ErrorOfStatus(st) ==
    IF st = 401 THEN "AuthenticationError"
    ELSE IF st = 404 THEN "NotFoundError"
    ELSE IF st = 429 THEN "RateLimitError"
    ELSE IF st >= 500 /\ st < 600 THEN "ServerError"
    ELSE "LibrariesIOClientError"

\* HTTPClientHelper.should_retry
ShouldRetry(st) == st \in {429, 500, 502, 503, 504}

\* _check_rate_limit raises RateLimitError: parse_rate_limit returned an
\* object and its remaining is 0 or less.
RateLimited(inf) == inf.present /\ inf.remaining <= 0

\* The exception _execute_request raises for what session.request did
\* ("none": it returns the response).
ExecuteRaises(r) ==
    IF r.status = 0 THEN "ConnectError"
    ELSE IF RateLimited(ParseRateLimit(r.headers)) THEN "RateLimitError"
    ELSE IF r.status >= 400 THEN ErrorOfStatus(r.status)
    ELSE "none"

\* _rate_limit_info after _execute_request has handled r.
InfoAfter(r) ==
    IF r.status # 0 /\ ParseRateLimit(r.headers).present
    THEN ParseRateLimit(r.headers)
    ELSE rate_limit_info

\* The except clauses of _make_request: a LibrariesIOClientError is raised
\* again, any other exception is wrapped in a new LibrariesIOClientError
\* (val 1: "Request failed: ...").
Surfaced(ty) ==
    IF ty \in ClientErrors
    THEN [kind |-> "error", type |-> ty, val |-> 0]
    ELSE [kind |-> "error", type |-> "LibrariesIOClientError", val |-> 1]
NoResponse == [status |-> 0, headers |-> NoHeaders, json |-> FALSE]
NoOutcome == [kind |-> "none", type |-> "", val |-> 0]

\* LibrariesIOClient.__init__, with no request made.
ClientFresh ==
    /\ headers = NoHeaders
    /\ parsed = Absent
    /\ cpc = "idle"
    /\ ckey = ""
    /\ response = NoResponse
    /\ rate_limit_info = Absent
    /\ outcome = NoOutcome
    /\ transport_calls = 0
    /\ permits = 0
    /\ requests = 0
    /\ spent = FALSE
    /\ reads = 0
    /\ writes = 0
    /\ key_args = <<>>
    /\ key_out = <<>>

----------------------------------------------------------------------------
\* RateLimiter: the state machine.

Init ==
    /\ limit \in 1..MaxLimit
    /\ window_seconds \in 1..MaxWindow
    /\ tokens = limit
    /\ since_refill = 0
    /\ locked = FALSE
    /\ waiters = <<>>
    /\ pc = [t \in Tasks |-> "idle"]
    /\ req = [t \in Tasks |-> 0]
    /\ time_passed = [t \in Tasks |-> 0]
    /\ sleep_left = [t \in Tasks |-> 0]
    /\ info = NoInfo
    /\ grants = Zeros(window_seconds)
    /\ idle_for = 0
    /\ burst = 0
    /\ ideal = limit * window_seconds
    /\ arrived = <<>>
    /\ max_size = 1
    /\ default_ttl = 1
    /\ CacheFresh
    /\ RetryUnused
    /\ ClientFresh

\* The body of acquire from line 51 (or 68) on, run by task t holding the lock
\* for a request of n tokens: refill, then either suspend in asyncio.sleep
\* (still holding the lock) or consume, release the lock and return.
Section(t, n) ==
    LET tp == since_refill
        have == Refilled(tp)
        calling == IF pc[t] = "idle" THEN Append(arrived, t) ELSE arrived
    IN  /\ since_refill' = 0
        /\ idle_for' = 0
        /\ info' = NoInfo
        /\ req' = [req EXCEPT ![t] = IF MustWait(have, n) THEN n ELSE 0]
        /\ IF MustWait(have, n)
           THEN /\ tokens' = have
                /\ locked' = TRUE
                /\ pc' = [pc EXCEPT ![t] = "sleeping"]
                /\ time_passed' = [time_passed EXCEPT ![t] = tp]
                /\ sleep_left' = [sleep_left EXCEPT ![t] = SleepTime(tp)]
                /\ grants' = grants
                /\ burst' = 0
                /\ ideal' = ideal
                /\ arrived' = calling
           ELSE /\ tokens' = Consume(have, n)
                /\ ideal' = IdealAfter(n)
                /\ arrived' = Left(calling, t)
                /\ locked' = FALSE
                /\ pc' = [pc EXCEPT ![t] = "idle"]
                /\ time_passed' = [time_passed EXCEPT ![t] = 0]
                /\ sleep_left' = [sleep_left EXCEPT ![t] = 0]
                /\ grants' = IF n = 1
                             THEN [grants EXCEPT ![1] = @ + 1]
                             ELSE grants
                /\ burst' = IF n = 1 /\ pc[t] = "idle"
                            THEN (IF have = limit THEN 1
                                  ELSE IF burst >= 1 THEN burst + 1 ELSE 0)
                            ELSE 0

\* Task t calls acquire(n).  With the lock free it runs the section at once;
\* otherwise it suspends on the lock behind the tasks already waiting.
Call(t, n) ==
    /\ pc[t] = "idle"
    /\ IF LockFree
       THEN /\ Section(t, n)
            /\ UNCHANGED <<limit, window_seconds, waiters>>
       ELSE /\ pc' = [pc EXCEPT ![t] = "queued"]
            /\ req' = [req EXCEPT ![t] = n]
            /\ waiters' = Append(waiters, t)
            /\ idle_for' = 0
            /\ info' = NoInfo
            /\ burst' = 0
            /\ arrived' = Append(arrived, t)
            /\ UNCHANGED <<limit, window_seconds, tokens, since_refill, locked,
                           time_passed, sleep_left, grants, ideal>>
    /\ UNCHANGED otherThanLimiter

\* A lock that lets its first waiter in while the holder sleeps.
Resume_Barges(t) ==
    /\ pc[t] = "queued"
    /\ waiters # <<>>
    /\ Head(waiters) = t
    /\ waiters' = Tail(waiters)
    /\ Section(t, req[t])
    /\ UNCHANGED <<limit, window_seconds>>
    /\ UNCHANGED otherThanLimiter

\* The lock was released and task t, first of its waiters, takes it and runs
\* the section.
Resume(t) ==
    /\ pc[t] = "queued"
    /\ ~locked
    /\ waiters # <<>>
    /\ Head(waiters) = t
    /\ waiters' = Tail(waiters)
    /\ Section(t, req[t])
    /\ UNCHANGED <<limit, window_seconds>>
    /\ UNCHANGED otherThanLimiter

\* The asyncio.sleep of task t is over: lines 68-78, then the loop test again.
Wake(t) ==
    /\ pc[t] = "sleeping"
    /\ sleep_left[t] = 0
    /\ Section(t, req[t])
    /\ UNCHANGED <<limit, window_seconds, waiters>>
    /\ UNCHANGED otherThanLimiter

\* A get_info that commits the refill it computes.
GetInfo_Commit ==
    /\ info' = [limit |-> limit,
                remaining |-> InfoRemaining(since_refill),
                used |-> InfoUsed(since_refill)]
    /\ tokens' = InfoRemaining(since_refill)
    /\ since_refill' = 0
    /\ UNCHANGED <<limit, window_seconds, locked, waiters,
                   pc, req, time_passed, sleep_left, grants, idle_for, burst,
                   ideal, arrived>>
    /\ UNCHANGED otherThanLimiter

\* get_info: a synchronous read, no lock.
GetInfo ==
    /\ info' = [limit |-> limit,
                remaining |-> InfoRemaining(since_refill),
                used |-> InfoUsed(since_refill)]
    /\ UNCHANGED <<limit, window_seconds, tokens, since_refill, locked, waiters,
                   pc, req, time_passed, sleep_left, grants, idle_for, burst,
                   ideal, arrived>>
    /\ UNCHANGED otherThanLimiter

\* One second passes on the limiter's clock.
DoTick ==
    /\ since_refill' = Min(since_refill + 1, window_seconds + 1)
    /\ sleep_left' = [t \in Tasks |-> Max(0, sleep_left[t] - 1)]
    /\ grants' = [i \in 1..window_seconds |-> IF i = 1 THEN 0 ELSE grants[i - 1]]
    /\ idle_for' = Min(idle_for + 1, window_seconds)
    /\ info' = NoInfo
    /\ burst' = 0
    /\ ideal' = IdealRefilled
    /\ UNCHANGED <<limit, window_seconds, tokens, locked, waiters, pc, req,
                   time_passed, arrived>>

\* One second passes.
Tick ==
    /\ DoTick
    /\ UNCHANGED otherThanLimiter

\* Callers may ask for any number of tokens, one more than the limit included.
Next ==
    \/ \E t \in Tasks : \E n \in 1..(limit + 1) : Call(t, n)
    \/ \E t \in Tasks : Resume(t)
    \/ \E t \in Tasks : Wake(t)
    \/ GetInfo
    \/ Tick

Spec == Init /\ [][Next]_vars

\* Callers that ask for a single token each.
NextSingle ==
    \/ \E t \in Tasks : Call(t, 1)
    \/ \E t \in Tasks : Resume(t)
    \/ \E t \in Tasks : Wake(t)
    \/ GetInfo
    \/ Tick

SingleSpec == Init /\ [][NextSingle]_vars

\* Callers that ask for between 1 and limit tokens, on an event loop that keeps
\* running: time advances, a sleep that is due returns, and a task the lock
\* was handed to runs.
NextInRange ==
    \/ \E t \in Tasks : \E n \in 1..limit : Call(t, n)
    \/ \E t \in Tasks : Resume(t)
    \/ \E t \in Tasks : Wake(t)
    \/ GetInfo
    \/ Tick

FairSpec ==
    /\ Init
    /\ [][NextInRange]_vars
    /\ WF_vars(Tick)
    /\ \A t \in Tasks : WF_vars(Wake(t)) /\ WF_vars(Resume(t))

\* A cancellation that leaves the lock held.
CancelSleeping_KeepsLock(t) ==
    /\ pc[t] = "sleeping"
    /\ pc' = [pc EXCEPT ![t] = "cancelled"]
    /\ req' = [req EXCEPT ![t] = 0]
    /\ time_passed' = [time_passed EXCEPT ![t] = 0]
    /\ sleep_left' = [sleep_left EXCEPT ![t] = 0]
    /\ idle_for' = 0
    /\ info' = NoInfo
    /\ burst' = 0
    /\ arrived' = Left(arrived, t)
    /\ UNCHANGED <<limit, window_seconds, tokens, since_refill, locked, waiters,
                   grants, ideal>>
    /\ UNCHANGED otherThanLimiter

\* Task t is cancelled while suspended in the asyncio.sleep of line 67:
\* CancelledError is raised there, leaves the while loop before line 81 and
\* passes through `async with self._lock`, whose exit releases the lock.
CancelSleeping(t) ==
    /\ pc[t] = "sleeping"
    /\ pc' = [pc EXCEPT ![t] = "cancelled"]
    /\ locked' = FALSE
    /\ req' = [req EXCEPT ![t] = 0]
    /\ time_passed' = [time_passed EXCEPT ![t] = 0]
    /\ sleep_left' = [sleep_left EXCEPT ![t] = 0]
    /\ idle_for' = 0
    /\ info' = NoInfo
    /\ burst' = 0
    /\ arrived' = Left(arrived, t)
    /\ UNCHANGED <<limit, window_seconds, tokens, since_refill, waiters, grants,
                   ideal>>
    /\ UNCHANGED otherThanLimiter

\* Callers whose tasks may be cancelled, or timed out by asyncio.wait_for,
\* which cancels the task it wraps.
NextCancel ==
    \/ Next
    \/ \E t \in Tasks : CancelSleeping(t)

CancelSpec == Init /\ [][NextCancel]_vars

----------------------------------------------------------------------------
\* MemoryCache: the state machine.

CacheInit ==
    /\ LimiterFresh
    /\ max_size \in Sizes
    /\ default_ttl \in 1..MaxTtl
    /\ CacheFresh
    /\ RetryUnused
    /\ ClientFresh

\* A get that renews the expiry of the entry it hits.
CacheGet_Renew(k) ==
    /\ k \in DOMAIN cache
    /\ ~IsExpired(cache[k])
    /\ cache' = With(cache, k, [data |-> cache[k].data,
                                expires_at |-> now + default_ttl])
    /\ access_times' = SetItem(access_times, k, now)
    /\ last_access' = [last_access EXCEPT ![k] = now]
    /\ ret' = [op |-> "get", key |-> k, val |-> cache[k].data, removed |-> {}]
    /\ UNCHANGED <<max_size, default_ttl, now, written>>
    /\ UNCHANGED otherThanCache

\* The body of MemoryCache.get, for the key k that _generate_key returns.
DoGet(k) ==
    /\ IF k \notin DOMAIN cache
       THEN /\ ret' = [op |-> "get", key |-> k, val |-> 0, removed |-> {}]
            /\ UNCHANGED <<cache, access_times, last_access, written>>
       ELSE IF IsExpired(cache[k])
       THEN /\ cache' = Without(cache, k)
            /\ access_times' = IF k \in ItemKeys(access_times)
                               THEN DelItem(access_times, k)
                               ELSE access_times
            /\ last_access' = [last_access EXCEPT ![k] = 0]
            /\ written' = [written EXCEPT ![k] = NoWrite]
            /\ ret' = [op |-> "get", key |-> k, val |-> 0, removed |-> {k}]
       ELSE /\ access_times' = SetItem(access_times, k, now)
            /\ last_access' = [last_access EXCEPT ![k] = now]
            /\ ret' = [op |-> "get", key |-> k, val |-> cache[k].data,
                        removed |-> {}]
            /\ UNCHANGED <<cache, written>>
    /\ UNCHANGED <<max_size, default_ttl, now>>

\* MemoryCache.get
CacheGet(k) ==
    /\ DoGet(k)
    /\ UNCHANGED otherThanCache

\* A set that stores nothing.
DoSet_Drop(k, v, ttl) ==
    /\ ret' = [op |-> "set", key |-> k, val |-> 0, removed |-> {}]
    /\ UNCHANGED <<max_size, default_ttl, cache, access_times, now, written,
                   last_access>>

\* The body of MemoryCache.set with _evict_oldest, for the key k that _generate_key returns.
\* _evict_oldest returns at once on an empty _access_times; its
\* del self._cache[oldest_key] raises KeyError for a key _cache does not hold.
DoSet(k, v, ttl) ==
    LET full == Full(Cardinality(DOMAIN cache))
        evicts == full /\ access_times # <<>>
        oldest == OldestKey(access_times)
        raises == evicts /\ oldest \notin DOMAIN cache
        c1 == IF evicts THEN Without(cache, oldest) ELSE cache
        a1 == IF evicts THEN DelItem(access_times, oldest) ELSE access_times
        w1 == IF evicts THEN [written EXCEPT ![oldest] = NoWrite] ELSE written
        l1 == IF evicts THEN [last_access EXCEPT ![oldest] = 0] ELSE last_access
    IN  /\ IF raises
           THEN /\ ret' = [op |-> "raise", key |-> k, val |-> 0, removed |-> {}]
                /\ UNCHANGED <<cache, access_times, written, last_access>>
           ELSE /\ cache' = With(c1, k, [data |-> v,
                                         expires_at |-> now + EffectiveTtl(ttl)])
                /\ access_times' = SetItem(a1, k, now)
                /\ written' = [w1 EXCEPT ![k] = [val |-> v, at |-> now, ttl |-> ttl]]
                /\ last_access' = [l1 EXCEPT ![k] = now]
                /\ ret' = [op |-> "set", key |-> k, val |-> 0,
                            removed |-> IF evicts THEN {oldest} ELSE {}]
        /\ UNCHANGED <<max_size, default_ttl, now>>

\* MemoryCache.set
CacheSet(k, v, ttl) ==
    /\ DoSet(k, v, ttl)
    /\ UNCHANGED otherThanCache

\* A clear that empties the entry map alone.
CacheClear_EntriesOnly ==
    /\ cache' = EmptyMap
    /\ written' = [k \in Keys |-> NoWrite]
    /\ last_access' = [k \in Keys |-> 0]
    /\ ret' = [op |-> "clear", key |-> "", val |-> 0, removed |-> DOMAIN cache]
    /\ UNCHANGED <<max_size, default_ttl, now, access_times>>
    /\ UNCHANGED otherThanCache

\* MemoryCache.clear
CacheClear ==
    /\ cache' = EmptyMap
    /\ access_times' = <<>>
    /\ written' = [k \in Keys |-> NoWrite]
    /\ last_access' = [k \in Keys |-> 0]
    /\ ret' = [op |-> "clear", key |-> "", val |-> 0, removed |-> DOMAIN cache]
    /\ UNCHANGED <<max_size, default_ttl, now>>
    /\ UNCHANGED otherThanCache

\* MemoryCache.size
CacheSize ==
    /\ ret' = [op |-> "size", key |-> "", val |-> Cardinality(DOMAIN cache),
                removed |-> {}]
    /\ UNCHANGED <<max_size, default_ttl, cache, access_times, now, written,
                   last_access>>
    /\ UNCHANGED otherThanCache

\* One second passes on the cache's clock.
CacheTick ==
    /\ now < MaxNow
    /\ now' = now + 1
    /\ ret' = NoRet
    /\ UNCHANGED <<max_size, default_ttl, cache, access_times, written,
                   last_access>>
    /\ UNCHANGED otherThanCache

CacheNext ==
    \/ \E k \in Keys : CacheGet(k)
    \/ \E k \in Keys : \E v \in Values : \E ttl \in Ttls : CacheSet(k, v, ttl)
    \/ CacheClear
    \/ CacheSize
    \/ CacheTick

CacheSpec == CacheInit /\ [][CacheNext]_vars

\* Callers that only call set.
CacheNextSetOnly ==
    \/ \E k \in Keys : \E v \in Values : \E ttl \in Ttls : CacheSet(k, v, ttl)
    \/ CacheTick

CacheSetOnlySpec == CacheInit /\ [][CacheNextSetOnly]_vars

----------------------------------------------------------------------------
\* RetryHandler: the state machine.

RetryInit ==
    /\ LimiterFresh
    /\ CacheUnused
    /\ max_retries \in 0..MaxRetries
    /\ base_delay \in 1..2
    /\ max_delay \in 1..MaxDelay
    /\ RetryFresh
    /\ ClientFresh

\* retry is called: the loop starts and func is invoked for attempt 0.
DoRetryStart ==
    /\ rstate = "idle"
    /\ rstate' = "attempting"
    /\ attempt' = 0
    /\ calls' = calls + 1
    /\ UNCHANGED <<max_retries, base_delay, max_delay, last_exception, delay,
                   result, raised, sleeps, thrown, returned>>

RetryStart ==
    /\ DoRetryStart
    /\ UNCHANGED otherThanRetry

\* func returns v: retry returns it.
DoAttemptSucceeds(v) ==
    /\ rstate = "attempting"
    /\ returned' = v
    /\ result' = RetryResult(v)
    /\ rstate' = "succeeded"
    /\ UNCHANGED <<max_retries, base_delay, max_delay, attempt, last_exception,
                   delay, raised, calls, sleeps, thrown>>

AttemptSucceeds(v) ==
    /\ DoAttemptSucceeds(v)
    /\ UNCHANGED otherThanRetry

\* func raises an Exception of class ty; j is hash(time.time()) % 100.
\* On the last attempt the loop breaks and last_exception is raised;
\* otherwise retry computes the delay and starts asyncio.sleep.
DoAttemptFails(ty, j) ==
    LET e == [type |-> ty, attempt |-> attempt]
    IN  /\ rstate = "attempting"
        /\ thrown' = e
        /\ last_exception' = e
        /\ IF LastAttempt(attempt)
           THEN /\ rstate' = "exhausted"
                /\ raised' = e
                /\ UNCHANGED <<delay, sleeps>>
           ELSE /\ rstate' = "waiting"
                /\ delay' = SleepDelay(attempt, j)
                /\ sleeps' = sleeps + 1
                /\ UNCHANGED raised
        /\ UNCHANGED <<max_retries, base_delay, max_delay, attempt, result,
                       calls, returned>>

AttemptFails(ty, j) ==
    /\ DoAttemptFails(ty, j)
    /\ UNCHANGED otherThanRetry

\* A wait that is followed by another wait.
WaitEnds_SleepsAgain ==
    /\ rstate = "waiting"
    /\ sleeps <= MaxRetries
    /\ sleeps' = sleeps + 1
    /\ UNCHANGED <<max_retries, base_delay, max_delay, rstate, attempt,
                   last_exception, delay, result, raised, calls, thrown,
                   returned>>
    /\ UNCHANGED otherThanRetry

\* asyncio.sleep returns: the loop goes on and func is invoked again.
DoWaitEnds ==
    /\ rstate = "waiting"
    /\ rstate' = "attempting"
    /\ attempt' = attempt + 1
    /\ calls' = calls + 1
    /\ UNCHANGED <<max_retries, base_delay, max_delay, last_exception, delay,
                   result, raised, sleeps, thrown, returned>>

WaitEnds ==
    /\ DoWaitEnds
    /\ UNCHANGED otherThanRetry

\* A cancellation that the handler swallows: the loop goes on.
RetryCancel_Swallowed ==
    /\ rstate \in {"attempting", "waiting"}
    /\ rstate' = "attempting"
    /\ attempt' = Min(attempt + 1, MaxRetries + 1)
    /\ calls' = Min(calls + 1, MaxRetries + 2)
    /\ UNCHANGED <<max_retries, base_delay, max_delay, last_exception, delay,
                   result, raised, sleeps, thrown, returned>>
    /\ UNCHANGED otherThanRetry

\* The task running retry is cancelled.  asyncio raises CancelledError at
\* the await the task is suspended on: at asyncio.sleep, inside the except
\* block, or inside func, where `except Exception` does not catch it
\* (CancelledError derives from BaseException).  Either way it leaves retry.
RetryCancel ==
    /\ rstate \in {"attempting", "waiting"}
    /\ rstate' = "cancelled"
    /\ raised' = [type |-> "CancelledError", attempt |-> None]
    /\ UNCHANGED <<max_retries, base_delay, max_delay, attempt, last_exception,
                   delay, result, calls, sleeps, thrown, returned>>
    /\ UNCHANGED otherThanRetry

RetryNext ==
    \/ RetryStart
    \/ \E v \in Results : AttemptSucceeds(v)
    \/ \E ty \in ErrTypes : \E j \in Jitters : AttemptFails(ty, j)
    \/ WaitEnds

RetrySpec == RetryInit /\ [][RetryNext]_vars

\* retry in a task that may be cancelled.
RetryNextCancel ==
    \/ RetryNext
    \/ RetryCancel

RetryCancelSpec == RetryInit /\ [][RetryNextCancel]_vars

----------------------------------------------------------------------------
\* HTTPClientHelper.parse_rate_limit, applied to every set of headers.

ParseInit ==
    /\ LimiterFresh
    /\ CacheUnused
    /\ RetryUnused
    /\ headers \in HeaderSets
    /\ parsed = Absent
    /\ cpc = "idle"
    /\ ckey = ""
    /\ response = NoResponse
    /\ rate_limit_info = Absent
    /\ outcome = NoOutcome
    /\ transport_calls = 0
    /\ permits = 0
    /\ requests = 0
    /\ spent = FALSE
    /\ reads = 0
    /\ writes = 0
    /\ key_args = <<>>
    /\ key_out = <<>>

Parse ==
    /\ parsed' = ParseRateLimit(headers)
    /\ UNCHANGED <<headers, cpc, ckey, response, rate_limit_info, outcome,
                   transport_calls, permits, requests, spent, reads, writes,
                   key_args, key_out>>
    /\ UNCHANGED <<limiterVars, cacheVars, retryVars>>

ParseSpec == ParseInit /\ [][Parse]_vars

----------------------------------------------------------------------------
\* MemoryCache._generate_key, applied to every two argument lists.

KeyInit ==
    /\ LimiterFresh
    /\ CacheUnused
    /\ RetryUnused
    /\ headers = NoHeaders
    /\ parsed = Absent
    /\ cpc = "idle"
    /\ ckey = ""
    /\ response = NoResponse
    /\ rate_limit_info = Absent
    /\ outcome = NoOutcome
    /\ transport_calls = 0
    /\ permits = 0
    /\ requests = 0
    /\ spent = FALSE
    /\ reads = 0
    /\ writes = 0
    /\ key_args \in [1..2 -> KeyArgs]
    /\ key_out = <<>>

GenerateKeys ==
    /\ key_out = <<>>
    /\ key_out' = [i \in 1..2 |-> GenerateKey(key_args[i])]
    /\ UNCHANGED <<headers, parsed, cpc, ckey, response, rate_limit_info,
                   outcome, transport_calls, permits, requests, spent, reads,
                   writes, key_args>>
    /\ UNCHANGED <<limiterVars, cacheVars, retryVars>>

KeySpec == KeyInit /\ [][GenerateKeys]_vars

----------------------------------------------------------------------------
\* LibrariesIOClient._make_request, called by one task, one request at a time.

ClientInit ==
    /\ limit \in 1..2
    /\ window_seconds = 1
    /\ tokens = limit
    /\ since_refill = 0
    /\ locked = FALSE
    /\ waiters = <<>>
    /\ pc = [t \in Tasks |-> "idle"]
    /\ req = [t \in Tasks |-> 0]
    /\ time_passed = [t \in Tasks |-> 0]
    /\ sleep_left = [t \in Tasks |-> 0]
    /\ info = NoInfo
    /\ grants = Zeros(window_seconds)
    /\ idle_for = 0
    /\ burst = 0
    /\ ideal = limit * window_seconds
    /\ arrived = <<>>
    /\ max_size \in Sizes
    /\ default_ttl = 1
    /\ CacheFresh
    /\ max_retries \in 0..1
    /\ base_delay = 1
    /\ max_delay = 1
    /\ RetryFresh
    /\ ClientFresh

\* The locals of a retry call that has not started.
RetryReset ==
    /\ rstate' = "idle"
    /\ attempt' = 0
    /\ last_exception' = NoExc
    /\ delay' = 0
    /\ result' = 0
    /\ raised' = NoExc
    /\ calls' = 0
    /\ sleeps' = 0
    /\ thrown' = NoExc
    /\ returned' = 0
    /\ UNCHANGED <<max_retries, base_delay, max_delay>>

\* A _make_request that goes on to the limiter whatever the cache returned.
ClientRequest_AlwaysFetch(k) ==
    /\ cpc \in {"idle", "done"}
    /\ requests < MaxRequests
    /\ requests' = requests + 1
    /\ ckey' = k
    /\ DoGet(k)
    /\ outcome' = NoOutcome
    /\ cpc' = "acquire"
    /\ response' = NoResponse
    /\ transport_calls' = 0
    /\ permits' = 0
    /\ spent' = FALSE
    /\ RetryReset
    /\ reads' = reads + 1
    /\ UNCHANGED <<headers, parsed, rate_limit_info, writes, key_args, key_out>>
    /\ UNCHANGED limiterVars

\* _make_request is called for the endpoint with cache key k: lines 216-226,
\* up to the call of rate_limiter.acquire.  A cached value is returned.
ClientRequest(k) ==
    /\ cpc \in {"idle", "done"}
    /\ requests < MaxRequests
    /\ requests' = requests + 1
    /\ ckey' = k
    /\ DoGet(k)
    /\ IF ret'.val # 0
       THEN /\ outcome' = [kind |-> "data", type |-> "", val |-> ret'.val]
            /\ cpc' = "done"
       ELSE /\ outcome' = NoOutcome
            /\ cpc' = "acquire"
    /\ response' = NoResponse
    /\ transport_calls' = 0
    /\ permits' = 0
    /\ spent' = FALSE
    /\ RetryReset
    /\ reads' = reads + 1
    /\ UNCHANGED <<headers, parsed, rate_limit_info, writes, key_args, key_out>>
    /\ UNCHANGED limiterVars

\* rate_limiter.acquire() has returned: retry starts and _execute_request
\* calls session.request.
Granted ==
    /\ permits' = permits + 1
    /\ DoRetryStart
    /\ transport_calls' = transport_calls + 1
    /\ cpc' = "transport"

\* The section of acquire has run for the client's task (task 1): either it
\* sleeps, or it has consumed a token and returned.
AfterSection ==
    /\ IF pc'[1] = "idle"
       THEN Granted
       ELSE /\ UNCHANGED <<retryVars, transport_calls, permits>>
            /\ cpc' = "acquire"
    /\ UNCHANGED <<limit, window_seconds, waiters>>
    /\ UNCHANGED <<headers, parsed, ckey, response, rate_limit_info, outcome,
                   requests, spent, reads, writes, key_args, key_out>>
    /\ UNCHANGED cacheVars

\* await self.rate_limiter.acquire(), line 229: no other task uses the
\* limiter, so the lock is free.
ClientAcquire ==
    /\ cpc = "acquire"
    /\ pc[1] = "idle"
    /\ LockFree
    /\ Section(1, 1)
    /\ AfterSection

\* The asyncio.sleep of acquire is over.
ClientWake ==
    /\ cpc = "acquire"
    /\ pc[1] = "sleeping"
    /\ sleep_left[1] = 0
    /\ Section(1, req[1])
    /\ AfterSection

\* A _make_request that stores the response before it parses the body.
ClientRespond_CachesUnparsed(r, j) ==
    /\ cpc = "transport"
    /\ response' = r
    /\ spent' = (spent \/ ReportsSpent(r))
    /\ rate_limit_info' = InfoAfter(r)
    /\ IF ExecuteRaises(r) = "none"
       THEN /\ DoAttemptSucceeds(BodyData)
            /\ cpc' = "done"
            /\ DoSet(ckey, BodyData, None)
            /\ writes' = writes + 1
            /\ outcome' = IF r.json
                           THEN [kind |-> "data", type |-> "", val |-> BodyData]
                           ELSE Surfaced("LibrariesIOClientError")
       ELSE /\ DoAttemptFails(ExecuteRaises(r), j)
            /\ IF rstate' = "exhausted"
               THEN /\ outcome' = Surfaced(raised'.type)
                    /\ cpc' = "done"
               ELSE /\ outcome' = outcome
                    /\ cpc' = "backoff"
            /\ UNCHANGED <<cacheVars, writes>>
    /\ UNCHANGED <<headers, parsed, ckey, transport_calls, permits, requests,
                   reads, key_args, key_out>>
    /\ UNCHANGED limiterVars

\* session.request has returned r or raised: the rest of _execute_request
\* (lines 273-280), the except clause of retry and, when retry returns or
\* raises, the rest of _make_request (lines 241-252).
ClientRespond(r, j) ==
    /\ cpc = "transport"
    /\ response' = r
    /\ spent' = (spent \/ ReportsSpent(r))
    /\ rate_limit_info' = InfoAfter(r)
    /\ IF ExecuteRaises(r) = "none"
       THEN /\ DoAttemptSucceeds(BodyData)
            /\ cpc' = "done"
            /\ IF r.json
               THEN /\ DoSet(ckey, BodyData, None)
                    /\ writes' = writes + 1
                    /\ outcome' = [kind |-> "data", type |-> "", val |-> BodyData]
               ELSE /\ outcome' = Surfaced("LibrariesIOClientError")
                    /\ UNCHANGED <<cacheVars, writes>>
       ELSE /\ DoAttemptFails(ExecuteRaises(r), j)
            /\ IF rstate' = "exhausted"
               THEN /\ outcome' = Surfaced(raised'.type)
                    /\ cpc' = "done"
               ELSE /\ outcome' = outcome
                    /\ cpc' = "backoff"
            /\ UNCHANGED <<cacheVars, writes>>
    /\ UNCHANGED <<headers, parsed, ckey, transport_calls, permits, requests,
                   reads, key_args, key_out>>
    /\ UNCHANGED limiterVars

\* A retry that takes a permit for every attempt.
ClientBackoffEnds_Reacquire ==
    /\ cpc = "backoff"
    /\ DoWaitEnds
    /\ transport_calls' = transport_calls + 1
    /\ permits' = permits + 1
    /\ cpc' = "transport"
    /\ UNCHANGED <<headers, parsed, ckey, response, rate_limit_info, outcome,
                   requests, spent, reads, writes, key_args, key_out>>
    /\ UNCHANGED <<limiterVars, cacheVars>>

\* The asyncio.sleep of retry is over: _execute_request is called again.
ClientBackoffEnds ==
    /\ cpc = "backoff"
    /\ DoWaitEnds
    /\ transport_calls' = transport_calls + 1
    /\ cpc' = "transport"
    /\ UNCHANGED <<headers, parsed, ckey, response, rate_limit_info, outcome,
                   permits, requests, spent, reads, writes, key_args, key_out>>
    /\ UNCHANGED <<limiterVars, cacheVars>>

\* One second passes, on the clock both the limiter and the cache read.
ClientTick ==
    /\ now < MaxNow
    /\ now' = now + 1
    /\ DoTick
    /\ UNCHANGED <<max_size, default_ttl, cache, access_times, ret, written,
                   last_access>>
    /\ UNCHANGED <<retryVars, clientVars>>

ClientNext ==
    \/ \E k \in Endpoints : ClientRequest(k)
    \/ ClientAcquire
    \/ ClientWake
    \/ \E r \in Responses : \E j \in {0, 99} : ClientRespond(r, j)
    \/ ClientBackoffEnds
    \/ ClientTick

ClientSpec == ClientInit /\ [][ClientNext]_vars

----------------------------------------------------------------------------
\* Claims about RateLimiter.

\* C1: in every state another task can observe, and after every acquire call,
\* 0 <= tokens <= limit.
C1_TokensInRange == 0 <= tokens /\ tokens <= limit

\* C1 witness: the bucket was emptied, one task waits for refill inside acquire
\* and another waits for the lock.
C1_Witness ==
    /\ tokens = 0
    /\ \E a, b \in Tasks : pc[a] = "sleeping" /\ pc[b] = "queued" /\ req[a] <= limit

\* C2 (as claimed): the single-token acquire calls that returned within the
\* last window_seconds seconds number at most limit.
C2_AtMostLimitPerWindow == Sum(grants) <= limit

\* C3 (as claimed): every acquire call for at most limit tokens eventually
\* returns.
C3_AcquireReturns ==
    \A t \in Tasks : (pc[t] # "idle" /\ req[t] <= limit) ~> (pc[t] = "idle")

\* C4 (as claimed): acquire(n) with n > limit is rejected, so no task is ever
\* suspended inside acquire, holding the lock, for a request above the limit.
C4_OverLimitRejected ==
    \A t \in Tasks : pc[t] = "sleeping" => req[t] <= limit

\* C5 (as claimed): while a task waits for refill inside acquire, no other
\* task's acquire is kept waiting although the tokens now in the bucket cover
\* its request.
C5_OthersNotBlocked ==
    \A a, b \in Tasks :
        pc[a] = "sleeping" /\ pc[b] = "queued" => req[b] > tokens

\* C5 (amended): a task waiting for refill inside acquire keeps the lock for
\* the whole wait, so every acquire another task calls meanwhile is queued on
\* the lock, whatever it asks for, no queued task proceeds and tokens stay as
\* they are until the waiting task itself runs again.
C5_WaiterHoldsLock ==
    [][\A a \in Tasks : pc[a] = "sleeping" =>
          \A b \in Tasks \ {a} :
              /\ ~Resume(b)
              /\ ~Wake(b)
              /\ \A n \in 1..(limit + 1) :
                     Call(b, n) => /\ pc'[b] = "queued"
                                   /\ tokens' = tokens
                                   /\ pc'[a] = "sleeping"]_vars

\* C5 witness: one task waits for refill, and another is queued on the lock
\* with a request the bucket could serve at once.
C5_Witness ==
    \E a, b \in Tasks :
        /\ pc[a] = "sleeping"
        /\ req[a] <= limit
        /\ pc[b] = "queued"
        /\ req[b] <= tokens

\* C6 (as claimed): a caller waiting for k tokens is due to resume as soon as
\* the time elapsed has refilled k tokens.
C6_UnblockedWhenRefilled ==
    \A t \in Tasks :
        (/\ pc[t] = "sleeping"
         /\ req[t] <= limit
         /\ InfoRemaining(since_refill) >= req[t]) => sleep_left[t] = 0

\* A step of task t inside the refill-and-consume section, for n tokens.
SectionStep(t, n) ==
    \/ Call(t, n) /\ LockFree
    \/ Resume(t) /\ n = req[t]
    \/ Wake(t) /\ n = req[t]

\* C7: at most one task is inside the refill-and-consume section at a time (it
\* holds the lock), a step of acquire(n) that returns leaves tokens at the
\* refilled value less n, one that does not return deducts nothing, and no
\* other step changes tokens.
C7_Serialized ==
    /\ [](/\ Cardinality({t \in Tasks : pc[t] = "sleeping"}) <= 1
          /\ (\E t \in Tasks : pc[t] = "sleeping") => locked)
    /\ [][/\ \A t \in Tasks : \A n \in 1..(limit + 1) :
               SectionStep(t, n) =>
                   tokens' = IF pc'[t] = "idle"
                             THEN Refilled(since_refill) - n
                             ELSE Refilled(since_refill)
          /\ tokens' # tokens =>
               \E t \in Tasks : \E n \in 1..(limit + 1) : SectionStep(t, n)]_vars

\* C7 witness: after an acquire has returned, one task is inside the section
\* waiting for refill while another waits for the lock.
C7_Witness ==
    /\ Sum(grants) >= 1
    /\ locked
    /\ \E a, b \in Tasks : pc[a] = "sleeping" /\ pc[b] = "queued"

\* C8: a step in which get_info returns a snapshot leaves tokens and the time
\* of the last refill as they were, and with them what the next acquire
\* finds after its refill and how long it would sleep.
C8_GetInfoReadOnly ==
    [][info' # NoInfo =>
          /\ tokens' = tokens
          /\ since_refill' = since_refill
          /\ Refilled(since_refill)' = Refilled(since_refill)
          /\ SleepTime(since_refill)' = SleepTime(since_refill)
          /\ UNCHANGED <<locked, waiters, pc, req, sleep_left>>]_vars

\* C8 witness: get_info has reported more tokens than are stored, the refill
\* it computed not being committed.
C8_Witness ==
    /\ info # NoInfo
    /\ info.remaining > tokens
    /\ since_refill > 0

\* C9: when no acquire has run for at least window_seconds, get_info reports
\* remaining = limit and used = 0.
C9_FullAfterIdleWindow ==
    (info # NoInfo /\ idle_for >= window_seconds) =>
        (info.remaining = limit /\ info.used = 0)

\* C9 witness: tokens had been consumed, a window went by with no acquire, and
\* get_info has returned.
C9_Witness ==
    /\ info # NoInfo
    /\ idle_for >= window_seconds
    /\ tokens < limit

\* The first sleep of an acquire(1) that found the bucket empty at the very
\* instant of the last refill.
WaitsAfterBurst(t) ==
    pc[t] = "sleeping" /\ req[t] = 1 /\ time_passed[t] = 0

\* C10 (as claimed): the acquire issued right after the bucket was emptied is
\* due to resume once window_seconds have elapsed.
C10_ResolvesAfterWindow ==
    \A t \in Tasks :
        (WaitsAfterBurst(t) /\ since_refill >= window_seconds) => sleep_left[t] = 0

\* C10 (amended): from a full bucket, limit single-token acquires made at one
\* instant return without suspending and leave the bucket empty; the next one
\* made at that instant suspends for window_seconds + 1 seconds, and returns
\* when that sleep ends.
C10_BurstThenWait ==
    /\ [](burst >= 1 =>
            /\ burst <= limit
            /\ tokens = limit - burst
            /\ since_refill = 0
            /\ LockFree)
    /\ [][\A t \in Tasks :
            /\ (/\ Call(t, 1)
                /\ LockFree
                /\ Refilled(since_refill) = limit \/ (burst >= 1 /\ burst < limit))
               => (/\ burst' = IF Refilled(since_refill) = limit THEN 1 ELSE burst + 1
                   /\ grants'[1] = grants[1] + 1)
            /\ (Call(t, 1) /\ burst = limit)
               => (/\ WaitsAfterBurst(t)'
                   /\ sleep_left'[t] = window_seconds + 1)
            /\ (WaitsAfterBurst(t) /\ Wake(t))
               => (/\ pc'[t] = "idle"
                   /\ since_refill = window_seconds + 1)]_vars

\* C10 witness: limit single-token acquires have returned at this instant and
\* a further one is suspended with window_seconds + 1 seconds to sleep.
C10_Witness ==
    \E t \in Tasks :
        /\ WaitsAfterBurst(t)
        /\ grants[1] = limit
        /\ since_refill = 0
        /\ sleep_left[t] = window_seconds + 1

----------------------------------------------------------------------------
\* Claims about MemoryCache.

\* The ttl a set(k, v, ttl) call asks for: the default when none is passed.
AskedTtl(ttl) == IF ttl = None THEN default_ttl ELSE ttl

\* C11: a get(k) made before the ttl asked for in the last set(k, v, ...) has
\* elapsed, k not having been cleared or evicted since, returns v.
C11_RoundTrip ==
    [][\A k \in Keys :
          (/\ CacheGet(k)
           /\ written[k] # NoWrite
           /\ now < written[k].at + AskedTtl(written[k].ttl))
          => ret'.val = written[k].val]_vars

\* C11 witness: get has returned the value of a set that replaced an earlier
\* value of the same key.
C11_Witness ==
    /\ ret.op = "get"
    /\ ret.key \in DOMAIN cache
    /\ written[ret.key] # NoWrite
    /\ ret.val = written[ret.key].val
    /\ ret.val = 2
    /\ now < written[ret.key].at + AskedTtl(written[ret.key].ttl)

\* C12 (as claimed): a get(k) made more than t after set(k, v, ttl=t), for any
\* t >= 0, returns not found.
C12_ExpiresAfterTtl ==
    [][\A k \in Keys :
          (/\ CacheGet(k)
           /\ written[k] # NoWrite
           /\ written[k].ttl # None
           /\ now > written[k].at + written[k].ttl)
          => ret'.val = 0]_vars

\* C13 (as claimed): a get made at now >= expires_at returns not found.
C13_HiddenFromExpiry ==
    [][\A k \in Keys :
          (/\ CacheGet(k)
           /\ k \in DOMAIN cache
           /\ now >= cache[k].expires_at)
          => ret'.val = 0]_vars

\* C13 (amended): get returns the stored value of a key exactly while
\* now <= expires_at, the instant now = expires_at included, and not found
\* from then on.
C13_VisibleUntilExpiry ==
    [][\A k \in Keys :
          (CacheGet(k) /\ k \in DOMAIN cache)
          => /\ (ret'.val # 0) <=> (now <= cache[k].expires_at)
             /\ ret'.val # 0 => ret'.val = cache[k].data]_vars

\* C13 witness: get has returned a value at the very instant its entry expires.
C13_Witness ==
    /\ ret.op = "get"
    /\ ret.val # 0
    /\ ret.key \in DOMAIN cache
    /\ now = cache[ret.key].expires_at


\* The number of stored entries.
StoredCount == Cardinality(DOMAIN cache)

C15_StaysFull ==
    [][\A k \in Keys : \A v \in Values : \A ttl \in Ttls :
         (CacheSet(k, v, ttl) /\ StoredCount = max_size)
             => Cardinality(DOMAIN cache') = max_size]_vars

\* The step records a write of v under k with ttl: every set that returns does.
Stores(k, v, ttl) == written'[k] = [val |-> v, at |-> now, ttl |-> ttl]

\* The stored keys that no stored key precedes in last access.
LeastRecent == {e \in DOMAIN cache :
                   \A j \in DOMAIN cache : last_access[e] <= last_access[j]}

\* C16: a set that finds the store full removes exactly one entry, one whose
\* last access (its latest set or get hit) is the oldest of all stored
\* entries, and leaves every other entry as it was; a set that finds room
\* removes nothing.
C16_EvictsLeastRecent ==
    [][\A k \in Keys : \A v \in Values : \A ttl \in Ttls :
         (Stores(k, v, ttl) /\ CacheSet(k, v, ttl)) =>
             IF StoredCount >= max_size
             THEN \E e \in LeastRecent :
                     /\ DOMAIN cache' = (DOMAIN cache \ {e}) \cup {k}
                     /\ \A j \in DOMAIN cache \ {e, k} : cache'[j] = cache[j]
             ELSE /\ DOMAIN cache' = DOMAIN cache \cup {k}
                  /\ \A j \in DOMAIN cache \ {k} : cache'[j] = cache[j]]_vars

\* set A, set B, get A, set C with max_size = 2 has evicted B: A, stored
\* first, was read after B was stored.
C16_Witness ==
    /\ max_size = 2
    /\ ret = [op |-> "set", key |-> "C", val |-> 0, removed |-> {"B"}]
    /\ DOMAIN cache = {"A", "C"}
    /\ access_times[1].key = "A"
    /\ written["A"].at < last_access["A"]

\* C17: in every reachable state the access-time map and the entry map have
\* the same keys.
C17_SameKeys ==
    /\ ItemKeys(access_times) = DOMAIN cache
    /\ Len(access_times) = StoredCount

\* A get has just removed an expired entry and left another one stored.
C17_Witness ==
    /\ ret.op = "get"
    /\ ret.removed = {ret.key}
    /\ ItemKeys(access_times) # {}
    /\ ItemKeys(access_times) = DOMAIN cache

\* C18: a get that hits changes the access time of its key alone: every
\* entry keeps its value and expiry, every other key keeps its access time.
C18_HitTouchesAccessTimeOnly ==
    [][\A k \in Keys :
         (CacheGet(k) /\ k \in DOMAIN cache /\ now <= cache[k].expires_at) =>
             /\ cache' = cache
             /\ ItemKeys(access_times') = ItemKeys(access_times)
             /\ ItemAt(access_times', k) = now
             /\ \A j \in DOMAIN cache \ {k} :
                    ItemAt(access_times', j) = ItemAt(access_times, j)]_vars

\* A get has hit an entry written earlier, beside another stored entry.
C18_Witness ==
    /\ ret.op = "get"
    /\ ret.val # 0
    /\ written[ret.key].at < now
    /\ ItemAt(access_times, ret.key) = now
    /\ cache[ret.key].expires_at = written[ret.key].at + default_ttl
    /\ StoredCount = 2

\* C19: a get never raises; on a key whose entry has expired it returns
\* None, as it does on a key never stored, and removes that key from both
\* maps, leaving every other key as it was.
C19_ExpiredGetRemoves ==
    [][\A k \in Keys :
         CacheGet(k) =>
             /\ ret'.op = "get"
             /\ (k \in DOMAIN cache /\ now > cache[k].expires_at) =>
                    /\ ret'.val = 0
                    /\ DOMAIN cache' = DOMAIN cache \ {k}
                    /\ ItemKeys(access_times') = ItemKeys(access_times) \ {k}
                    /\ \A j \in DOMAIN cache' :
                           /\ cache'[j] = cache[j]
                           /\ ItemAt(access_times', j) = ItemAt(access_times, j)
             /\ k \notin DOMAIN cache =>
                    /\ ret'.val = 0
                    /\ cache' = cache
                    /\ access_times' = access_times]_vars

\* A get has just found its key expired, with another entry stored.
C19_Witness ==
    /\ ret.op = "get"
    /\ ret.val = 0
    /\ ret.removed = {ret.key}
    /\ ret.key \notin DOMAIN cache
    /\ StoredCount = 1

\* C20: when clear returns both maps are empty, and the size or get call
\* that comes next returns 0 or None.
C20_ClearEmptiesAll ==
    /\ [](ret.op = "clear" => cache = EmptyMap /\ access_times = <<>>)
    /\ [][(ret.op = "clear" /\ (CacheSize \/ \E k \in Keys : CacheGet(k)))
              => ret'.val = 0]_vars

\* A clear of a store of two entries has just returned.
C20_Witness ==
    /\ ret.op = "clear"
    /\ Cardinality(ret.removed) = 2
    /\ cache = EmptyMap
    /\ access_times = <<>>


\* C27: a cancellation during the wait for refill ends the call with
\* CancelledError, deducts no tokens and releases the lock, so that the
\* task at the head of the lock's queue can take it.
C27_CancelReleasesLock ==
    /\ [][\A t \in Tasks : CancelSleeping(t) =>
              /\ pc'[t] = "cancelled"
              /\ tokens' = tokens
              /\ ~locked'
              /\ waiters' = waiters]_vars
    /\ [](\A t \in Tasks :
              (pc[t] = "queued" /\ \A u \in Tasks : pc[u] # "sleeping")
                  => \E u \in Tasks : ENABLED Resume(u))

\* A task was cancelled in its wait while another one is queued on the lock.
C27_Witness ==
    \E t, u \in Tasks :
        /\ pc[t] = "cancelled"
        /\ pc[u] = "queued"
        /\ waiters = <<u>>
        /\ ~locked

\* C36: whenever a bucket of capacity limit, refilled continuously at limit /
\* window_seconds tokens a second and emptied by the same consumptions, would
\* hold n whole tokens, a call of acquire(n) that finds the lock free returns
\* without sleeping.
C36_AdmitsWhenIdealHolds ==
    [][\A t \in Tasks : \A n \in 1..limit :
         (/\ ideal >= n * window_seconds
          /\ LockFree
          /\ Call(t, n)) => pc'[t] = "idle"]_vars

\* The acquire call of task t returns in this step.
Completes(t) ==
    /\ pc'[t] = "idle"
    /\ \/ \E n \in 1..(limit + 1) : Call(t, n)
       \/ Resume(t)
       \/ Wake(t)

\* The call of task t, in progress, was made before the one of task u.
CalledBefore(t, u) ==
    \E i, j \in DOMAIN arrived :
        /\ arrived[i] = t
        /\ arrived[j] = u
        /\ i < j

\* C39: acquire calls return in the order in which they were made: when a
\* call returns, no call made before it is still in progress, whatever the
\* numbers of tokens asked for.
C39_GrantedInArrivalOrder ==
    [][\A t \in Tasks :
         Completes(t) =>
             \A u \in Tasks \ {t} :
                 (pc[u] \in {"queued", "sleeping"}) => CalledBefore(t, u)]_vars

\* A later call for one token is queued behind an earlier call for two that
\* sleeps, although one token is there.
C39_Witness ==
    /\ arrived = <<1, 2>>
    /\ pc[1] = "sleeping"
    /\ req[1] = 2
    /\ pc[2] = "queued"
    /\ req[2] = 1
    /\ tokens = 1

C38_OverwriteKeepsOthers ==
    [][\A k \in DOMAIN cache :
         (ret'.op = "set" /\ ret'.key = k) =>
             /\ DOMAIN cache' = DOMAIN cache
             /\ \A j \in DOMAIN cache \ {k} :
                    /\ cache'[j] = cache[j]
                    /\ last_access'[j] = last_access[j]]_vars

----------------------------------------------------------------------------
\* Claims about RetryHandler.

\* C21: func is never invoked more than max_retries + 1 times; when every
\* invocation has failed, retry has invoked it exactly max_retries + 1 times
\* and raises the exception of the last invocation, as func raised it.
C21_ExhaustsAfterMaxRetries ==
    /\ calls <= max_retries + 1
    /\ rstate = "exhausted" =>
           /\ calls = max_retries + 1
           /\ raised = thrown
           /\ raised.attempt = max_retries
           /\ result = 0
    /\ (returned = 0 /\ thrown.attempt = max_retries) => rstate = "exhausted"

\* Three invocations have failed with max_retries = 2, the last one with a
\* class of its own.
C21_Witness ==
    /\ rstate = "exhausted"
    /\ max_retries = 2
    /\ calls = 3
    /\ raised = [type |-> "ValueError", attempt |-> 2]

\* C22: when func succeeds after n failures, retry has invoked it n + 1 times
\* and returns the value of that invocation.
C22_ReturnsFirstSuccess ==
    rstate = "succeeded" =>
        /\ calls = attempt + 1
        /\ attempt <= max_retries
        /\ (attempt > 0) => thrown.attempt = attempt - 1
        /\ (attempt = 0) => thrown = NoExc
        /\ result = returned
        /\ result \in Results
        /\ raised = NoExc

\* func has failed twice and then returned 2.
C22_Witness ==
    /\ rstate = "succeeded"
    /\ thrown.attempt = 1
    /\ calls = 3
    /\ result = 2

\* C23: the wait after the failure of attempt k is at least
\* min(max_delay, base_delay * 2^k), at most a tenth more, and the value
\* without jitter does not decrease from one attempt to the next.
C23_BackoffSchedule ==
    /\ rstate = "waiting" =>
           /\ delay >= 1000 * Min(max_delay, base_delay * Pow2(attempt))
           /\ delay <= 1100 * Min(max_delay, base_delay * Pow2(attempt))
    /\ \A k \in 0..MaxRetries :
           Min(max_delay, base_delay * Pow2(k))
               <= Min(max_delay, base_delay * Pow2(k + 1))

\* The second wait is twice the first, which max_delay does not cap, and
\* carries jitter.
C23_Witness ==
    /\ rstate = "waiting"
    /\ attempt = 1
    /\ base_delay = 1
    /\ max_delay = 3
    /\ delay = 2000 + 2 * 99

\* C24: no wait between two attempts is longer than max_delay.
C24_WaitWithinMaxDelay == rstate = "waiting" => delay <= 1000 * max_delay

\* The transitions of retry that the contract names.
RetryTransitions ==
    {<<"idle", "attempting">>, <<"attempting", "succeeded">>,
     <<"attempting", "waiting">>, <<"waiting", "attempting">>,
     <<"attempting", "exhausted">>}

\* C25: retry moves along the named transitions only; a failure leads to a
\* wait exactly when attempts remain; there is one wait between two
\* consecutive attempts and none after a success or the last failure; the
\* states Succeeded and Exhausted are final.
C25_StateMachine ==
    /\ [][rstate' # rstate => <<rstate, rstate'>> \in RetryTransitions]_vars
    /\ [][(rstate = "attempting" /\ rstate' = "waiting") => attempt < max_retries]_vars
    /\ [][(rstate = "attempting" /\ rstate' = "exhausted") => attempt = max_retries]_vars
    /\ [][(rstate \in {"succeeded", "exhausted"}) => UNCHANGED retryVars]_vars
    /\ [](rstate = "waiting" => sleeps = calls)
    /\ [](rstate \in {"attempting", "succeeded", "exhausted"} => sleeps = calls - 1)

\* retry has waited twice, once after each of two failures, and the third
\* attempt is running.
C25_Witness ==
    /\ rstate = "attempting"
    /\ calls = 3
    /\ sleeps = 2

\* C26: a cancellation that arrives during a wait ends retry at once with
\* CancelledError: func is not invoked again and neither a result nor the
\* operation's exception comes out.
C26_CancelStopsRetry ==
    /\ [][(rstate = "waiting" /\ RetryCancel) =>
              /\ rstate' = "cancelled"
              /\ raised'.type = "CancelledError"
              /\ calls' = calls
              /\ result' = 0]_vars
    /\ [][(rstate = "cancelled") => UNCHANGED retryVars]_vars

\* retry was cancelled in its wait after a failed first attempt.
C26_Witness ==
    /\ rstate = "cancelled"
    /\ sleeps = 1
    /\ calls = 1
    /\ last_exception.attempt = 0
    /\ raised.type = "CancelledError"


----------------------------------------------------------------------------
\* Claims about HTTPClientHelper and LibrariesIOClient.

\* C28: parse_rate_limit returns a RateLimitInfo, with used = limit -
\* remaining, only if all three headers are present and numeric; with a
\* header missing or not numeric it returns None.
C28_AbsentUnlessAllNumeric ==
    parsed.present =>
        /\ \A name \in {"limit", "remaining", "reset"} :
               headers[name].kind \in {"int", "decimal"}
        /\ parsed.used = parsed.limit - parsed.remaining


\* C29: a response of status 200 with a JSON body whose rate-limit headers
\* are missing or malformed leaves _rate_limit_info as it was, and the
\* request returns the response data and stores it in the cache.
C29_BadHeadersNoError ==
    [][\A r \in Responses : \A j \in {0, 99} :
         (/\ ClientRespond(r, j)
          /\ r.status = 200
          /\ r.json
          /\ r.headers \in {NoHeaders, BadHeaders}) =>
             /\ rate_limit_info' = rate_limit_info
             /\ cpc' = "done"
             /\ outcome' = [kind |-> "data", type |-> "", val |-> BodyData]
             /\ ckey \in DOMAIN cache'
             /\ cache'[ckey].data = BodyData]_vars

\* C30: a request in which a response carried remaining 0 ends with
\* RateLimitError itself, and the recorded rate-limit info has remaining 0.
C30_RateLimitErrorSurfaces ==
    (cpc = "done" /\ spent) =>
        /\ outcome = [kind |-> "error", type |-> "RateLimitError", val |-> 0]
        /\ rate_limit_info = ParseRateLimit(SpentHeaders)

\* C31: a request is attempted again only after a failure whose status
\* should_retry classifies as retryable (429, 500, 502, 503, 504); after a
\* response of status 401 or 404 it is not attempted again.
C31_OnlyTransientRetried ==
    (cpc = "backoff" /\ response.status >= 400) => ShouldRetry(response.status)

\* C32: a request whose key has an unexpired entry in the cache returns the
\* entry's value at once: no permit is acquired, retry is not called, no
\* transport call is made and the limiter is as it was.
C32_HitShortCircuits ==
    [][\A k \in Endpoints :
         (/\ k \in DOMAIN cache
          /\ ~IsExpired(cache[k])
          /\ ClientRequest(k)) =>
             /\ cpc' = "done"
             /\ outcome' = [kind |-> "data", type |-> "", val |-> cache[k].data]
             /\ permits' = 0
             /\ transport_calls' = 0
             /\ rstate' = "idle"
             /\ calls' = 0
             /\ UNCHANGED limiterVars]_vars

\* A second request was served from the cache after the first one had
\* taken a token.
C32_Witness ==
    /\ requests = 2
    /\ cpc = "done"
    /\ ret.op = "get"
    /\ ret.val = BodyData
    /\ outcome.kind = "data"
    /\ permits = 0
    /\ transport_calls = 0
    /\ tokens < limit

\* C35: two calls of _generate_key return the same key if and only if their
\* endpoints are equal and their parameters are the same dict, whatever the
\* insertion order, None counting as the empty dict.
C35_CanonicalKey ==
    key_out # <<>> =>
        ((key_out[1] = key_out[2]) <=>
            (/\ key_args[1].endpoint = key_args[2].endpoint
             /\ ParamDict(key_args[1]) = ParamDict(key_args[2])))

\* Two parameters given in one order and in the other have one key.
C35_Witness ==
    /\ key_out # <<>>
    /\ Len(key_args[1].params) = 2
    /\ key_args[2].params = <<key_args[1].params[2], key_args[1].params[1]>>
    /\ key_args[1].endpoint = key_args[2].endpoint
    /\ key_out[1] = key_out[2]

\* The steps of a request come in the order cache get, permit, transport,
\* cache set: no transport call without the permit, and the cache is written
\* in the step in which a response without error and with a JSON body
\* arrives, and changed otherwise only by the get of a request.
InOrder ==
    /\ [](cpc = "acquire" => (ret.op = "get" /\ transport_calls = 0))
    /\ [](transport_calls > 0 => permits = 1)
    /\ [][writes' # writes =>
             /\ cpc = "transport"
             /\ permits = 1
             /\ transport_calls >= 1
             /\ ExecuteRaises(response') = "none"
             /\ response'.json
             /\ outcome'.kind = "data"
             /\ ret'.op = "set"]_vars
    /\ [][cache' # cache => (writes' # writes \/ reads' # reads)]_vars

\* C33, as stated: the steps come in order and a request that ends in an
\* error leaves the cache as it was.
C33_ErrorLeavesCacheUnchanged ==
    /\ InOrder
    /\ []((cpc = "done" /\ outcome.kind = "error") =>
             (ret.op = "get" /\ ret.removed = {}))

\* C33, amended: the steps come in order and a request that ends in an
\* error has written nothing to the cache; the one change it can have made
\* is the removal, by its get, of the expired entry of its own key.
C33_ErrorWritesNothing ==
    /\ InOrder
    /\ []((cpc = "done" /\ outcome.kind = "error") =>
             (ret.op = "get" /\ ret.key = ckey /\ ret.removed \subseteq {ckey}))
    /\ [][\A k \in Endpoints :
             (ClientRequest(k) /\ ret'.removed # {}) =>
                 /\ k \in DOMAIN cache
                 /\ IsExpired(cache[k])
                 /\ cache' = Without(cache, k)]_vars

\* A request found the entry of its key expired, removed it and ended in an
\* error after a transport call.
C33_Witness ==
    /\ cpc = "done"
    /\ outcome.kind = "error"
    /\ ret.op = "get"
    /\ ret.removed = {ckey}
    /\ transport_calls >= 1
    /\ writes = 1

\* C34: when a request succeeded and the same request is made again before
\* the ttl of the entry has elapsed, the second is served from the cache: two
\* cache reads and one cache write in all, no second permit and no second
\* transport call.
C34_SecondServedFromCache ==
    [][\A k \in Endpoints :
         (/\ requests = 1
          /\ cpc = "done"
          /\ outcome.kind = "data"
          /\ ckey = k
          /\ now < written[k].at + default_ttl
          /\ ClientRequest(k)) =>
             /\ cpc' = "done"
             /\ outcome' = outcome
             /\ reads' = 2
             /\ writes' = 1
             /\ permits' = 0
             /\ transport_calls' = 0
             /\ tokens' = tokens]_vars

\* The second of two equal requests has returned the data the first one
\* stored.
C34_Witness ==
    /\ requests = 2
    /\ cpc = "done"
    /\ outcome = [kind |-> "data", type |-> "", val |-> BodyData]
    /\ reads = 2
    /\ writes = 1
    /\ written[ckey].val = BodyData
    /\ tokens = limit - 1

\* The request in progress, or just finished, missed the cache.
Missed == cpc # "idle" /\ (ret.op # "get" \/ ret.val = 0)

\* C40: a request that misses the cache acquires one permit, whatever the
\* number of transport calls retry makes for it (at most max_retries + 1),
\* and while it is attempted, also when it fails, no token goes back to the
\* limiter.
C40_OnePermitPerMiss ==
    /\ [](cpc \in {"transport", "backoff"} =>
             /\ permits = 1
             /\ transport_calls \in 1..(max_retries + 1))
    /\ []((cpc = "done" /\ Missed) =>
             /\ permits = 1
             /\ transport_calls \in 1..(max_retries + 1))
    /\ [][(cpc \in {"transport", "backoff"}) => tokens' = tokens]_vars

\* A request failed after two transport calls, with one permit taken and
\* not given back.
C40_Witness ==
    /\ cpc = "done"
    /\ Missed
    /\ outcome.kind = "error"
    /\ transport_calls = 2
    /\ permits = 1
    /\ tokens = limit - 1

====
